---------------------------- MODULE Spec2Model ----------------------------
(***************************************************************************)
(* A model of xbase's broadcast hub (src/src/broadcast/mod.rs) and of the  *)
(* build request handler that drives it (src/daemon/src/build.rs).         *)
(*                                                                         *)
(* One project root is modelled.  A hub (struct Broadcast) owns an accept  *)
(* loop (`server`), a relay loop (`handle`), the relay channel (tx/rx),    *)
(* the client set (`listeners`, a tokio Mutex<Vec<UnixStream>>) and one    *)
(* tokio Notify (`abort`).  The relay loop spawns one write task per       *)
(* message; consume() spawns one task per consumed process.                *)
(*                                                                         *)
(* tokio primitives are modelled by what they do:                          *)
(*  - Notify::notified() is a future created at the top of a select!; a    *)
(*    notify_waiters() completes the futures that exist at that moment and *)
(*    stores nothing for futures created later.  A task "at the select"    *)
(*    has pc "select"; once its future is completed its pc is "notified".  *)
(*    select! picks at random among ready branches, so a notified task may *)
(*    still take its other branch, which drops the completed future.       *)
(*  - tokio::sync::Mutex is FIFO: lockQ is the queue of tasks that polled  *)
(*    lock(); its head holds the guard.                                    *)
(*  - tokio::spawn makes a task runnable; when it is first polled is up to *)
(*    the scheduler.                                                       *)
(*  - Message's serde_json::to_string is taken to succeed (Message is a    *)
(*    plain record of strings), so the SendError arm is not modelled.      *)
(***************************************************************************)
EXTENDS Integers, Sequences, FiniteSets, TLC

\* ------------------------------------------------------------------ bounds
\* Hubs opened in turn for the root.
MaxHubs == 2
\* Clients that ever connect.
MaxClients == 2
\* Messages the hub's callers and the processes they start may enqueue.
MaxMsgs == 3
\* Processes the hub's callers hand to consume.
MaxProcs == 1
\* Output lines of one process.
MaxLines == 1
\* Build requests and watch events the daemon handles.
MaxJobs == 2
\* Signatures of build requests.
MaxSigs == 1
\* Raw filesystem events the watcher receives.
MaxRaw == 3
\* Clients registered for the root at one time.
MaxRefs == 2
MaxLog == 4
MaxParses == 2

Hubs == 1..MaxHubs
Clients == 1..MaxClients

\* The accept loop's identity in the client-set lock's queue; write tasks are
\* identified by the message they carry (1, 2, ...).
SrvTask == 0

\* ------------------------------------------------------------------ state
VARIABLES
    hub,        \* [Hubs -> "none" | "open" | "closed"]: not yet created, created, abort fired
    endpoint,   \* the socket file at `address`: 0 = absent, h = bound by hub h
    server,     \* accept loop of each hub: "none" | "select" | "notified" | "lock" | "done"
    handle,     \* relay loop of each hub: "none" | "select" | "notified" | "done"
    backlog,    \* [Hubs -> Seq(Clients)]: connections not yet accepted
    accepted,   \* [Hubs -> 0..MaxClients]: the stream the accept loop holds while it waits for the lock
    listeners,  \* [Hubs -> Seq(Clients)]: the Vec<UnixStream> behind the Mutex
    lockQ,      \* [Hubs -> Seq(task)]: tasks that polled listeners.lock(); the head holds it
    chan,       \* [Hubs -> Seq(message id)]: the unbounded relay channel
    msgs,       \* Seq of records, one per Message ever enqueued, in enqueue order:
                \*   hub, kind, src (p > 0: process p, -j < 0: job j, 0: another caller),
                \*   attached (the client set when it was enqueued), open (the hub was not yet closed),
                \*   w ("none" | "spawned" | "waiting" | "done": its write task),
                \*   idx (the write task's position in listeners.iter_mut())
    recv,       \* [Clients -> Seq(message id)]: what each client has been written
    cond,       \* [Clients -> "new" | "ok" | "stalled" | "dead"]
    startedAtAttach, \* [Clients -> set of message ids]: the Messages whose write task had taken the lock when the client was pushed
    procs,      \* Seq of records, one per consumed process:
                \*   pc ("select" | "notified" | "sendfalse" | "done": the consume task),
                \*   hub, stream (the items the process stream still yields before None),
                \*   buf (the channel(1) of the status), rcvr ("alive" | "dropped"),
                \*   sent (every value a send on the status channel delivered),
                \*   outcome ("pending" | "true" | "false" | "none": what the receiver's recv() returned),
                \*   aborted (process.aborter() was notified),
                \*   exited ("no" | "exit0" | "exit1": the exit item the stream has yielded),
                \*   atClose ("no" | "streaming" | "drained": the task when the hub's signal fired)
    registered, \* the maps of the daemon state that hold the root: a subset of StateMaps
    numClients, \* the project's num_clients (0 while the state holds no project for the root)
    stateLock,  \* the DAEMON_STATE mutex: 0 = free, j = held by job j
    watching,   \* [Sigs -> Nat]: the registrations the root's watcher holds for each signature
    targets,    \* [Targets -> TargetInfo]: the project's targets (platform "none": no such target)
    xcodeproj,  \* [Targets -> platform | "none"]: the XCodeProject the project has loaded
    lines,      \* the build log handed to CompileCommands::from_logs: a Seq of LogLines
    parsed,     \* Seq of the CompileCommands that the calls of from_logs on `lines` returned
    jobs        \* Seq of records, one per build request or watch event:
                \*   kind ("once" | "watch" | "stop" | "event" | "compile"), sig (the request's signature),
                \*   ev (the filesystem event; Event::default() for a request),
                \*   trig (should_trigger of the event), disc (should_discard of the event),
                \*   raw (the raw events merged into the event), burst (the job whose
                \*   debounce window was open when the event arrived; itself if none was),
                \*   pc ("debounce" | "lock" | "await" | "write" | "notify" | "done"),
                \*   wrote (a compile-database update has overwritten `.compile`), proc (the process its trigger consumes, 0: none),
                \*   builds (calls of project.build),
                \*   result ("-" | "ok" | "err"; of a compile job "ok" | "build" | "send" | "io"),
                \*   kept (the registration was present when the trigger returned)

hubVars == <<hub, endpoint, server, handle, backlog, accepted, listeners, lockQ, chan,
             msgs, recv, cond, startedAtAttach>>
daemonVars == <<registered, numClients, stateLock, watching, jobs>>
logVars == <<lines, parsed>>
projVars == <<targets, xcodeproj>>
vars == <<hubVars, procs, daemonVars, logVars, projVars>>

\* ------------------------------------------------------------------ helpers
\* The target names and platforms an xcodeproj may declare.
Targets == {"App", "Tests"}
Platforms == {"ios", "macos"}
\* XCodeGenProject::default(): no targets, an empty XCodeProject.
InitProject ==
    /\ targets = [t \in Targets |-> [platform |-> "none", watching |-> FALSE]]
    /\ xcodeproj = [t \in Targets |-> "none"]

Range(s) == {s[i] : i \in 1..Len(s)}
MsgIds == 1..Len(msgs)
ProcIds == 1..Len(procs)
JobIds == 1..Len(jobs)

\* The task holding the client-set lock of hub h (-1: nobody).
LockHolder(h) == IF lockQ[h] = <<>> THEN -1 ELSE Head(lockQ[h])

\* rx lives inside the relay task: it is dropped when the loop breaks.
RxAlive(h) == handle[h] \in {"select", "notified"}

\* UnboundedSender::send of a Message on hub h's channel: the Message is
\* appended to the channel, or the send fails when rx is gone.
NewMsg(h, kind, src) ==
    [hub |-> h, kind |-> kind, src |-> src, attached |-> Range(listeners[h]),
     open |-> hub[h] = "open", w |-> "none", idx |-> 0]
RECURSIVE SendAll(_, _, _, _)
SendAll(h, kinds, src, ms) ==
    IF kinds = <<>> THEN ms
    ELSE SendAll(h, Tail(kinds), src, Append(ms, NewMsg(h, Head(kinds), src)))
\* tx.send of the Messages `kinds`, in order, by `src`.
TxSend(h, kinds, src) ==
    /\ msgs' = SendAll(h, kinds, src, msgs)
    /\ chan' = [chan EXCEPT ![h] = @ \o [i \in 1..Len(kinds) |-> Len(msgs) + i]]

\* The bound on Messages applies to new work of the hub's callers.  The
\* lines a running process still has to relay are counted in, so that the
\* bound never holds back a task that is already running.
RECURSIVE Pending(_)
Pending(s) == IF s = <<>> THEN 0
              ELSE (IF Head(s) \in {"exit0", "exit1"} THEN 0 ELSE 1) + Pending(Tail(s))
RECURSIVE ReservedUpTo(_)
ReservedUpTo(p) == IF p = 0 THEN 0 ELSE Pending(procs[p].stream) + ReservedUpTo(p - 1)
Room == MaxMsgs - Len(msgs) - ReservedUpTo(Len(procs))

\* ------------------------------------------------------------------ Init
\* The state after the first Broadcast::new(root) returned and the root was
\* registered with the daemon: hub 1 is bound and both loops are spawned and
\* parked on their select!.
InitHub ==
    /\ hub = [h \in Hubs |-> IF h = 1 THEN "open" ELSE "none"]
    /\ endpoint = 1
    /\ server = [h \in Hubs |-> IF h = 1 THEN "select" ELSE "none"]
    /\ handle = [h \in Hubs |-> IF h = 1 THEN "select" ELSE "none"]
    /\ backlog = [h \in Hubs |-> <<>>]
    /\ accepted = [h \in Hubs |-> 0]
    /\ listeners = [h \in Hubs |-> <<>>]
    /\ lockQ = [h \in Hubs |-> <<>>]
    /\ chan = [h \in Hubs |-> <<>>]
    /\ msgs = <<>>
    /\ recv = [c \in Clients |-> <<>>]
    /\ cond = [c \in Clients |-> "new"]
    /\ startedAtAttach = [c \in Clients |-> {}]
    /\ procs = <<>>

Init ==
    /\ InitHub
    /\ registered = {"projects", "broadcasters", "watcher"}
    /\ numClients = 1
    /\ stateLock = 0
    /\ watching = [s \in 1..MaxSigs |-> 0]
    /\ jobs = <<>>
    /\ lines = <<>>
    /\ parsed = <<>>
    /\ InitProject

\* ------------------------------------------------------------------ Broadcast::new
\* Broadcast::new(root) for the next hub of the same root.  The daemon keeps
\* one hub per root, so a new one is opened only once the previous one was
\* closed.  A stale file at `address` is removed, then start_server binds
\* (which creates the socket file) and both loops are spawned.
Bind(h) ==
    /\ hub[h] = "none"
    /\ h > 1
    /\ hub[h - 1] = "closed"
    /\ hub' = [hub EXCEPT ![h] = "open"]
    /\ endpoint' = h
    /\ server' = [server EXCEPT ![h] = "select"]
    /\ handle' = [handle EXCEPT ![h] = "select"]
Open(h) ==
    /\ Bind(h)
    /\ UNCHANGED <<backlog, accepted, listeners, lockQ, chan, msgs,
                   recv, cond, startedAtAttach, procs, daemonVars, logVars, projVars>>

\* ------------------------------------------------------------------ start_server
\* select! branch `Ok((stream, _)) = listener.accept()`: the loop takes the
\* oldest pending connection and polls listeners.lock().  The Notified future
\* of this iteration is dropped, completed or not.
SrvAccept(h) ==
    /\ server[h] \in {"select", "notified"}
    /\ backlog[h] # <<>>
    /\ accepted' = [accepted EXCEPT ![h] = Head(backlog[h])]
    /\ backlog' = [backlog EXCEPT ![h] = Tail(backlog[h])]
    /\ lockQ' = [lockQ EXCEPT ![h] = Append(lockQ[h], SrvTask)]
    /\ server' = [server EXCEPT ![h] = "lock"]
    /\ UNCHANGED <<hub, endpoint, handle, listeners, chan, msgs,
                   recv, cond, startedAtAttach, procs, daemonVars, logVars, projVars>>

\* Messages whose write task has taken the client-set lock of hub h.
Started(h) ==
    {m \in MsgIds :
        /\ msgs[m].hub = h
        /\ \/ msgs[m].w = "done"
           \/ msgs[m].w = "waiting" /\ LockHolder(h) = m}

\* A push that does not wait for the guard.
SrvPushNoLock(h) ==
    /\ server[h] = "lock"
    /\ listeners' = [listeners EXCEPT ![h] = Append(listeners[h], accepted[h])]
    /\ startedAtAttach' = [startedAtAttach EXCEPT ![accepted[h]] = Started(h)]
    /\ accepted' = [accepted EXCEPT ![h] = 0]
    /\ lockQ' = [lockQ EXCEPT ![h] = SelectSeq(lockQ[h], LAMBDA t : t # SrvTask)]
    /\ server' = [server EXCEPT ![h] = "select"]
    /\ UNCHANGED <<hub, endpoint, handle, backlog, chan, msgs,
                   recv, cond, procs, daemonVars, logVars, projVars>>

\* The lock is granted: listeners.push(stream); the guard drops at the end of
\* the branch and the loop is back at its select! with a fresh Notified.
SrvPush(h) ==
    /\ server[h] = "lock"
    /\ LockHolder(h) = SrvTask
    /\ listeners' = [listeners EXCEPT ![h] = Append(listeners[h], accepted[h])]
    /\ startedAtAttach' = [startedAtAttach EXCEPT ![accepted[h]] = Started(h)]
    /\ accepted' = [accepted EXCEPT ![h] = 0]
    /\ lockQ' = [lockQ EXCEPT ![h] = Tail(lockQ[h])]
    /\ server' = [server EXCEPT ![h] = "select"]
    /\ UNCHANGED <<hub, endpoint, handle, backlog, chan, msgs,
                   recv, cond, procs, daemonVars, logVars, projVars>>

\* select! branch `_ = abort.notified()`: remove_file(&address) removes
\* whatever file is at the address, then the loop breaks and the listener
\* is dropped with the connections it had not accepted.
SrvAbort(h) ==
    /\ server[h] = "notified"
    /\ endpoint' = 0
    /\ server' = [server EXCEPT ![h] = "done"]
    /\ backlog' = [backlog EXCEPT ![h] = <<>>]
    /\ UNCHANGED <<hub, handle, accepted, listeners, lockQ, chan, msgs,
                   recv, cond, startedAtAttach, procs, daemonVars, logVars, projVars>>

\* ------------------------------------------------------------------ start_messages_handler
\* select! branch `result = rx.recv()` with Some(output): a write task is
\* spawned for the message and the loop is back at its select!.
RelayRecv(h) ==
    /\ handle[h] \in {"select", "notified"}
    /\ chan[h] # <<>>
    /\ chan' = [chan EXCEPT ![h] = Tail(chan[h])]
    /\ msgs' = [msgs EXCEPT ![Head(chan[h])].w = "spawned", ![Head(chan[h])].idx = 1]
    /\ handle' = [handle EXCEPT ![h] = "select"]
    /\ UNCHANGED <<hub, endpoint, server, backlog, accepted, listeners, lockQ,
                   recv, cond, startedAtAttach, procs, daemonVars, logVars, projVars>>

\* select! branch `_ = abort.notified() => break`: the task ends and rx is
\* dropped with whatever it still buffers.
RelayAbort(h) ==
    /\ handle[h] = "notified"
    /\ handle' = [handle EXCEPT ![h] = "done"]
    /\ UNCHANGED <<hub, endpoint, server, backlog, accepted, listeners, lockQ, chan,
                   msgs, recv, cond, startedAtAttach, procs, daemonVars, logVars, projVars>>

\* The spawned write task is polled for the first time: listeners.lock().
WriterStart(m) ==
    /\ msgs[m].w = "spawned"
    /\ msgs' = [msgs EXCEPT ![m].w = "waiting"]
    /\ lockQ' = [lockQ EXCEPT ![msgs[m].hub] = Append(@, m)]
    /\ UNCHANGED <<hub, endpoint, server, handle, backlog, accepted, listeners, chan,
                   recv, cond, startedAtAttach, procs, daemonVars, logVars, projVars>>

\* A write task that iterates the client set without holding the guard.
WriterWriteNoLock(m) ==
    /\ msgs[m].w = "waiting"
    /\ msgs[m].idx <= Len(listeners[msgs[m].hub])
    /\ LET c == listeners[msgs[m].hub][msgs[m].idx] IN
        /\ cond[c] # "stalled"
        /\ recv' = [recv EXCEPT ![c] = IF cond[c] = "ok" THEN Append(@, m) ELSE @]
    /\ msgs' = [msgs EXCEPT ![m].idx = @ + 1]
    /\ UNCHANGED <<hub, endpoint, server, handle, backlog, accepted, listeners, lockQ,
                   chan, cond, startedAtAttach, procs, daemonVars, logVars, projVars>>

\* One turn of `for listener in listeners.iter_mut()` under the guard:
\* write_all + flush on one client.  A dead client fails the write, which is
\* dropped by .ok(); a client that does not read leaves write_all pending.
WriterWrite(m) ==
    /\ msgs[m].w = "waiting"
    /\ LockHolder(msgs[m].hub) = m
    /\ msgs[m].idx <= Len(listeners[msgs[m].hub])
    /\ LET c == listeners[msgs[m].hub][msgs[m].idx] IN
        /\ cond[c] # "stalled"
        /\ recv' = [recv EXCEPT ![c] = IF cond[c] = "ok" THEN Append(@, m) ELSE @]
    /\ msgs' = [msgs EXCEPT ![m].idx = @ + 1]
    /\ UNCHANGED <<hub, endpoint, server, handle, backlog, accepted, listeners, lockQ,
                   chan, cond, startedAtAttach, procs, daemonVars, logVars, projVars>>

\* The iteration is over: the task ends and the guard is dropped.
WriterFinish(m) ==
    /\ msgs[m].w = "waiting"
    /\ LockHolder(msgs[m].hub) = m
    /\ msgs[m].idx > Len(listeners[msgs[m].hub])
    /\ msgs' = [msgs EXCEPT ![m].w = "done"]
    /\ lockQ' = [lockQ EXCEPT ![msgs[m].hub] = Tail(@)]
    /\ UNCHANGED <<hub, endpoint, server, handle, backlog, accepted, listeners, chan,
                   recv, cond, startedAtAttach, procs, daemonVars, logVars, projVars>>

\* ------------------------------------------------------------------ consume
\* The items a process stream yields before it ends (process_stream's
\* ProcessItem): output lines, then an exit status, or an error when the
\* status cannot be had.  is_success() is Some only for an exit item.
Lines(n) == [i \in 1..n |-> "line"]
Streams == {Lines(n) \o <<t>> : n \in 0..MaxLines, t \in {"exit0", "exit1", "error"}}
IsExit(item) == item \in {"exit0", "exit1"}
IsSuccess(item) == item = "exit0"

\* Sender::send(v).await on the channel(1) of process p, when it does not
\* have to wait: the value is buffered if the receiver lives, and the send
\* fails (the error is dropped) if the receiver is gone.
SendReady(p) == procs[p].rcvr = "dropped" \/ procs[p].buf = <<>>
StatusSent(r, v) ==
    IF r.rcvr = "alive"
    THEN [r EXCEPT !.buf = Append(@, v), !.sent = Append(@, v)]
    ELSE r

\* The body of Broadcast::consume(process) on hub h: the process is spawned
\* and the task that drains its stream starts at its select!.
ConsumeStart(h, s) ==
    procs' = Append(procs, [pc |-> "select", hub |-> h, stream |-> s, buf |-> <<>>,
                            rcvr |-> "alive", sent |-> <<>>, outcome |-> "pending",
                            aborted |-> FALSE, exited |-> "no", atClose |-> "no"])

\* A caller of the hub consumes a process.
Consume(h, s) ==
    /\ hub[h] # "none"
    /\ Len(procs) < MaxProcs
    /\ Pending(s) <= Room
    /\ ConsumeStart(h, s)
    /\ UNCHANGED <<hubVars, daemonVars, logVars, projVars>>

\* select! branch `result = stream.next()` and its handler, for Some(output):
\* an exit item goes to the status channel, any other item to the relay
\* channel (an error is logged when rx is gone).  The loop does not break.
ConsumeItem(p) ==
    /\ procs[p].pc \in {"select", "notified"}
    /\ procs[p].stream # <<>>
    /\ LET item == Head(procs[p].stream)
           h == procs[p].hub
           next == [procs[p] EXCEPT !.stream = Tail(@), !.pc = "select"] IN
        IF IsExit(item)
        THEN /\ SendReady(p)
             /\ procs' = [procs EXCEPT ![p] =
                             [StatusSent(next, IsSuccess(item)) EXCEPT !.exited = item]]
             /\ UNCHANGED <<chan, msgs>>
        ELSE /\ procs' = [procs EXCEPT ![p] = next]
             /\ IF RxAlive(h) THEN TxSend(h, <<item>>, p) ELSE UNCHANGED <<chan, msgs>>
    /\ UNCHANGED <<hub, endpoint, server, handle, backlog, accepted, listeners, lockQ,
                   recv, cond, startedAtAttach, daemonVars, logVars, projVars>>

\* select! branch `result = stream.next()` with None: break.  The task ends
\* and its status senders are dropped.
ConsumeEnd(p) ==
    /\ procs[p].pc \in {"select", "notified"}
    /\ procs[p].stream = <<>>
    /\ procs' = [procs EXCEPT ![p].pc = "done"]
    /\ UNCHANGED <<hubVars, daemonVars, logVars, projVars>>

\* select! branch `_ = cancel.notified()`: abort.notify_one(), then the task
\* is at send_status.send(false).await.
ConsumeCancel(p) ==
    /\ procs[p].pc = "notified"
    /\ procs' = [procs EXCEPT ![p].aborted = TRUE, ![p].pc = "sendfalse"]
    /\ UNCHANGED <<hubVars, daemonVars, logVars, projVars>>

\* send_status.send(false).await completes (it waits while the buffer is
\* full and the receiver alive), unwrap_or_default drops a failure; break.
ConsumeSendFalse(p) ==
    /\ procs[p].pc = "sendfalse"
    /\ SendReady(p)
    /\ procs' = [procs EXCEPT ![p] = [StatusSent(procs[p], FALSE) EXCEPT !.pc = "done"]]
    /\ UNCHANGED <<hubVars, daemonVars, logVars, projVars>>

\* ------------------------------------------------------------------ the receiver consume returns
\* A receiver that resolves only when a value is buffered.
RecvReadyValueOnly(p) == procs[p].buf # <<>>

\* What recv() on the status receiver returns now: a buffered value, or None
\* once the consume task has ended and dropped every sender.
RecvReady(p) == procs[p].buf # <<>> \/ procs[p].pc = "done"
RecvValue(p) ==
    IF procs[p].buf # <<>> THEN (IF Head(procs[p].buf) THEN "true" ELSE "false") ELSE "none"
Received(r, v) == [r EXCEPT !.outcome = v, !.buf = IF @ = <<>> THEN @ ELSE Tail(@)]
Dropped(r) == [r EXCEPT !.rcvr = "dropped", !.buf = <<>>]

\* The caller's single `recv.recv().await` on the receiver consume returned.
StatusRecv(p) ==
    /\ procs[p].rcvr = "alive"
    /\ procs[p].outcome = "pending"
    /\ RecvReady(p)
    /\ procs' = [procs EXCEPT ![p] = Received(procs[p], RecvValue(p))]
    /\ UNCHANGED <<hubVars, daemonVars, logVars, projVars>>

\* The caller drops the receiver (it goes out of scope after the recv).
StatusDrop(p) ==
    /\ procs[p].rcvr = "alive"
    /\ procs[p].outcome # "pending"
    /\ procs' = [procs EXCEPT ![p] = Dropped(procs[p])]
    /\ UNCHANGED <<hubVars, daemonVars, logVars, projVars>>

\* ------------------------------------------------------------------ the hub's callers and clients
\* notify_info! / notify_error! / log_info! / log_error! on hub h: a Message
\* is built and handed to tx.send.  With rx gone the send fails and the
\* macro's Result is an Err: nothing is enqueued.
Notify(h, kind) ==
    /\ hub[h] # "none"
    /\ RxAlive(h)
    /\ Room > 0
    /\ TxSend(h, <<kind>>, 0)
    /\ UNCHANGED <<hub, endpoint, server, handle, backlog, accepted, listeners, lockQ,
                   recv, cond, startedAtAttach, procs, daemonVars, logVars, projVars>>

\* The hub's cancellation signal fires: notify_waiters() completes the
\* Notified future of every task of hub h that is at its select! now.
Signal(h) ==
    /\ hub' = [hub EXCEPT ![h] = "closed"]
    /\ server' = [server EXCEPT ![h] = IF @ = "select" THEN "notified" ELSE @]
    /\ handle' = [handle EXCEPT ![h] = IF @ = "select" THEN "notified" ELSE @]
    /\ procs' = [p \in ProcIds |->
                  IF procs[p].hub = h /\ procs[p].pc = "select"
                  THEN [procs[p] EXCEPT
                          !.pc = "notified",
                          !.atClose = IF procs[p].stream # <<>> THEN "streaming" ELSE "drained"]
                  ELSE procs[p]]

\* close() of hub h by one of its callers.
Close(h) ==
    /\ hub[h] = "open"
    /\ Signal(h)
    /\ UNCHANGED <<endpoint, backlog, accepted, listeners, lockQ, chan, msgs,
                   recv, cond, startedAtAttach, daemonVars, logVars, projVars>>

\* A client connects to the socket file at the hub's address: the connection
\* reaches the listener that bound that file, if it still listens.
ClientConnect(c) ==
    /\ cond[c] = "new"
    /\ \A d \in Clients : d < c => cond[d] # "new"
    /\ endpoint # 0
    /\ server[endpoint] \in {"select", "notified", "lock"}
    /\ cond' = [cond EXCEPT ![c] = "ok"]
    /\ backlog' = [backlog EXCEPT ![endpoint] = Append(@, c)]
    /\ UNCHANGED <<hub, endpoint, server, handle, accepted, listeners, lockQ, chan, msgs,
                   recv, startedAtAttach, procs, daemonVars, logVars, projVars>>

\* A client stops reading: writes to it stay pending once its buffer is full.
ClientStall(c) ==
    /\ cond[c] = "ok"
    /\ cond' = [cond EXCEPT ![c] = "stalled"]
    /\ UNCHANGED <<hub, endpoint, server, handle, backlog, accepted, listeners, lockQ, chan,
                   msgs, recv, startedAtAttach, procs, daemonVars, logVars, projVars>>

\* A client goes away: writes to it fail from now on.
ClientDie(c) ==
    /\ cond[c] \in {"ok", "stalled"}
    /\ cond' = [cond EXCEPT ![c] = "dead"]
    /\ UNCHANGED <<hub, endpoint, server, handle, backlog, accepted, listeners, lockQ, chan,
                   msgs, recv, startedAtAttach, procs, daemonVars, logVars, projVars>>

\* ------------------------------------------------------------------ build requests (daemon/src/build.rs)
Sigs == 1..MaxSigs
StateMaps == {"projects", "broadcasters", "watcher"}

\* A filesystem event as should_trigger reads it.
Events == [kind : {"content", "rename", "create", "remove", "other"},
           exists : BOOLEAN, seen : BOOLEAN]

\* Event::default(), which handle passes to trigger.
DefaultEvent == [kind |-> "other", exists |-> FALSE, seen |-> FALSE]

\* A should_trigger that fires on every missing path, seen or not.
ShouldTriggerAnyMissing(e) ==
    \/ e.kind \in {"content", "rename", "create", "remove"}
    \/ ~e.exists

\* BuildRequest::should_discard.
ShouldDiscard(e) == FALSE

\* BuildRequest::should_trigger.
ShouldTrigger(e) ==
    \/ e.kind = "content"
    \/ e.kind = "rename"
    \/ e.kind = "create"
    \/ e.kind = "remove"
    \/ ~(e.exists \/ e.seen)

\* state.broadcasters.get(root): the hub the daemon holds for the root.
Broadcaster == CHOOSE h \in Hubs : hub[h] # "none" /\ \A k \in Hubs : hub[k] # "none" => k <= h

\* The watcher of the root holds a registration with this signature.
Watched(sig) == watching[sig] > 0

\* An add that inserts without removing the equivalent registration.
WatcherAddAgain(w, sig) == [w EXCEPT ![sig] = @ + 1]

\* The watcher's add(req): the registration is keyed by the request's
\* signature; an equivalent one is removed first, then req is inserted.
WatcherAdd(w, sig) == [w EXCEPT ![sig] = 1]

\* A remove that leaves the registration in place.
WatcherRemoveNone(w, sig) == w

\* The watcher's remove(signature): the registration with that key goes.
WatcherRemove(w, sig) == [w EXCEPT ![sig] = 0]

\* A request or an event that does not wait for the state lock.
LockIgnored(j) == TRUE

\* `state.lock().await` returns: the lock is free.
LockGranted(j) == stateLock = 0

\* A report that leaves out the error log.
TriggerReportNoLog(is_once, success) ==
    IF success THEN <<"notify_info">> ELSE <<"notify_error">>

\* The Messages trigger emits once the outcome is known.
TriggerReport(is_once, success) ==
    IF success THEN <<"notify_info">> ELSE <<"notify_error", "log_error">>

\* The job returns; the state guard is dropped.
Return(j, result) ==
    /\ jobs' = [jobs EXCEPT ![j].pc = "done", ![j].result = result,
                            ![j].kept = watching'[jobs[j].sig] > 0]
    /\ stateLock' = 0

\* BuildRequest::trigger up to `recv.recv().await`: the project is looked
\* up, a one-shot request announces the build, project.build hands the
\* build process to consume, and the trigger waits for the outcome while its
\* caller holds the state guard.
TriggerStart(j, is_once) ==
    LET h == Broadcaster IN
    IF "projects" \notin registered \/ (is_once /\ ~RxAlive(h))
    THEN /\ UNCHANGED <<msgs, chan, procs, watching>>
         /\ Return(j, "err")
    ELSE /\ IF is_once THEN TxSend(h, <<"notify_info">>, -j) ELSE UNCHANGED <<msgs, chan>>
         /\ \E s \in Streams : ConsumeStart(h, s)
         /\ jobs' = [jobs EXCEPT ![j].pc = "await", ![j].proc = Len(procs) + 1,
                                 ![j].builds = @ + 1]
         /\ stateLock' = j
         /\ UNCHANGED watching

\* A build request arrives: handle(req) is called and waits for the lock.
\* A watch event arrives: the watcher waits for the lock to run the
\* registration with the event's signature.
NewJob(kind, sig, ev, pc, burst) ==
    [kind |-> kind, sig |-> sig, ev |-> ev,
     trig |-> kind = "event" /\ ShouldTrigger(ev),
     disc |-> kind = "event" /\ ShouldDiscard(ev),
     raw |-> 1, burst |-> burst, pc |-> pc, wrote |-> FALSE,
     proc |-> 0, builds |-> 0, result |-> "-", kept |-> FALSE]
JobArrive(kind, sig, ev) ==
    /\ Len(jobs) < MaxJobs
    /\ jobs' = Append(jobs, NewJob(kind, sig, ev, "lock", Len(jobs) + 1))
    /\ UNCHANGED <<hubVars, procs, stateLock, watching, registered, numClients, logVars, projVars>>

\* ------------------------------------------------------------------ debounce (the watcher's event intake)
\* The events for registration sig whose debounce window is open.
OpenWindows(sig) ==
    {j \in JobIds : jobs[j].kind = "event" /\ jobs[j].pc = "debounce" /\ jobs[j].sig = sig}

\* Raw events received so far.
RECURSIVE RawUpTo(_)
RawUpTo(j) == IF j = 0 THEN 0 ELSE jobs[j].raw + RawUpTo(j - 1)

\* An intake that hands every raw event on as an event of its own.
CoalesceNot(j, e) ==
    /\ Len(jobs) < MaxJobs
    /\ jobs' = Append(jobs, NewJob("event", jobs[j].sig, e, "debounce", jobs[j].burst))

\* A raw event for a path whose window is open is merged into the window's
\* logical event, which takes the latest event's kind and flags.
Coalesce(j, e) ==
    jobs' = [jobs EXCEPT ![j].ev = e, ![j].trig = ShouldTrigger(e),
                         ![j].disc = ShouldDiscard(e), ![j].raw = @ + 1]

\* The watcher receives a raw filesystem event: it joins the open window of
\* its path, or opens one.
RawEvent(sig, e) ==
    /\ RawUpTo(Len(jobs)) < MaxRaw
    /\ IF OpenWindows(sig) # {}
       THEN Coalesce(CHOOSE j \in OpenWindows(sig) : TRUE, e)
       ELSE /\ Len(jobs) < MaxJobs
            /\ jobs' = Append(jobs, NewJob("event", sig, e, "debounce", Len(jobs) + 1))
    /\ UNCHANGED <<hubVars, procs, stateLock, watching, registered, numClients, logVars, projVars>>

\* The debounce window ends: the logical event is handed to the registrations.
WindowClose(j) ==
    /\ jobs[j].pc = "debounce"
    /\ jobs' = [jobs EXCEPT ![j].pc = "lock"]
    /\ UNCHANGED <<hubVars, procs, stateLock, watching, registered, numClients, logVars, projVars>>

\* handle(req) from the moment it holds the state lock to its return, or to
\* the await inside trigger.
HandleBuild(j) ==
    /\ jobs[j].pc = "lock"
    /\ jobs[j].kind \in {"once", "watch", "stop"}
    /\ LockGranted(j)
    /\ IF "broadcasters" \notin registered
       THEN /\ UNCHANGED <<msgs, chan, procs, watching>>
            /\ Return(j, "err")
       ELSE CASE jobs[j].kind = "once" -> TriggerStart(j, TRUE)
              [] jobs[j].kind = "watch" ->
                    IF ~RxAlive(Broadcaster)
                    THEN /\ UNCHANGED <<msgs, chan, procs, watching>>
                         /\ Return(j, "err")
                    ELSE /\ TxSend(Broadcaster, <<"notify_info">>, -j)
                         /\ watching' = IF "watcher" \in registered
                                        THEN WatcherAdd(watching, jobs[j].sig) ELSE watching
                         /\ Return(j, IF "watcher" \in registered THEN "ok" ELSE "err")
                         /\ UNCHANGED procs
              [] jobs[j].kind = "stop" ->
                    /\ watching' = WatcherRemove(watching, jobs[j].sig)
                    /\ Return(j, IF "watcher" \in registered /\ Watched(jobs[j].sig)
                                 THEN "ok" ELSE "err")
                    /\ UNCHANGED <<msgs, chan, procs>>
    /\ UNCHANGED <<hub, endpoint, server, handle, backlog, accepted, listeners, lockQ,
                   recv, cond, startedAtAttach, registered, numClients, logVars, projVars>>

\* The watcher runs a registration on an event, holding the state lock:
\* should_discard drops the registration, should_trigger decides, trigger
\* builds.
WatchEvent(j) ==
    /\ jobs[j].pc = "lock"
    /\ jobs[j].kind = "event"
    /\ LockGranted(j)
    /\ IF Watched(jobs[j].sig) /\ jobs[j].disc
       THEN /\ watching' = WatcherRemove(watching, jobs[j].sig)
            /\ UNCHANGED <<msgs, chan, procs>>
            /\ Return(j, "ok")
       ELSE IF Watched(jobs[j].sig) /\ jobs[j].trig
       THEN TriggerStart(j, FALSE)
       ELSE /\ UNCHANGED <<msgs, chan, procs, watching>>
            /\ Return(j, "ok")
    /\ UNCHANGED <<hub, endpoint, server, handle, backlog, accepted, listeners, lockQ,
                   recv, cond, startedAtAttach, registered, numClients, logVars, projVars>>

\* BuildRequest::trigger from `recv.recv().await` on: a missing outcome
\* counts as failure; the report is emitted (the first send that fails
\* returns the error); the receiver and the state guard are dropped.
TriggerResume(j) ==
    /\ jobs[j].pc = "await"
    /\ RecvReady(jobs[j].proc)
    /\ UNCHANGED watching
    /\ LET p == jobs[j].proc
           h == procs[p].hub
           v == RecvValue(p) IN
        /\ procs' = [procs EXCEPT ![p] = Dropped(Received(procs[p], v))]
        /\ IF RxAlive(h)
           THEN /\ TxSend(h, TriggerReport(jobs[j].kind = "once", v = "true"), -j)
                /\ Return(j, "ok")
           ELSE /\ Return(j, "err")
                /\ UNCHANGED <<msgs, chan>>
    /\ UNCHANGED <<hub, endpoint, server, handle, backlog, accepted, listeners, lockQ,
                   recv, cond, startedAtAttach, registered, numClients, logVars, projVars>>

\* A drop that removes the root's entries whatever the count.
DropWorkspaceAnyCount ==
    /\ stateLock = 0
    /\ registered # {}
    /\ hub[Broadcaster] = "open"
    /\ numClients' = numClients - 1
    /\ registered' = {}
    /\ watching' = [s \in Sigs |-> 0]
    /\ Signal(Broadcaster)
    /\ UNCHANGED <<endpoint, backlog, accepted, listeners, lockQ, chan, msgs,
                   recv, cond, startedAtAttach, stateLock, jobs, logVars, projVars>>

\* A client of the root drops (Drop::handle): under the state lock the
\* project's count goes down by one; when it was the last client, the
\* root's project, hub and watcher leave the state and the hub is closed.
DropWorkspace ==
    /\ stateLock = 0
    /\ registered # {}
    /\ hub[Broadcaster] = "open"
    /\ IF numClients > 1
       THEN /\ numClients' = numClients - 1
            /\ UNCHANGED <<registered, watching, hub, server, handle, procs>>
       ELSE /\ numClients' = 0
            /\ registered' = {}
            /\ watching' = [s \in Sigs |-> 0]
            /\ Signal(Broadcaster)
    /\ UNCHANGED <<endpoint, backlog, accepted, listeners, lockQ, chan, msgs,
                   recv, cond, startedAtAttach, stateLock, jobs, logVars, projVars>>

\* A client registers for the root, under the state lock: a root the state
\* holds gets one more client; otherwise a hub is opened for it and a
\* project is made with num_clients: 1.
RegisterClient ==
    /\ stateLock = 0
    /\ IF "projects" \in registered
       THEN /\ numClients < MaxRefs
            /\ numClients' = numClients + 1
            /\ UNCHANGED <<registered, hub, endpoint, server, handle>>
       ELSE /\ \E h \in Hubs : Bind(h)
            /\ numClients' = 1
            /\ registered' = StateMaps
    /\ UNCHANGED <<backlog, accepted, listeners, lockQ, chan, msgs, recv, cond,
                   startedAtAttach, procs, stateLock, watching, jobs, logVars, projVars>>

\* ------------------------------------------------------------------ update_compile_database (daemon/src/project/xcodegen.rs)
\* The Messages update_compile_database emits before it starts xcodebuild,
\* on failure, and after the database is written.
CompileAnnounce == <<"notify_info Compiling", "log_info separator",
                     "log_info Compiling", "log_info separator">>
CompileFailed == <<"notify_error Fail to generated compile commands">>
CompileDone == <<"notify_info Compiled", "log_info Compiled">>

\* An update that writes the database whatever the outcome.
ProceedAlways(success) == TRUE

\* `if !success { ...; return Err(Error::Build(..)) }`: the update goes on
\* to write the database only on success.
Proceed(success) == success

\* update_compile_database up to the await on the outcome: the update is
\* announced (a send that fails returns its error), the xcodebuild process
\* is handed to consume.
CompileStart(s) ==
    /\ Len(jobs) < MaxJobs
    /\ hub[Broadcaster] # "none"
    /\ RxAlive(Broadcaster) => Len(procs) < MaxProcs
    /\ LET h == Broadcaster
           j == Len(jobs) + 1
           job == NewJob("compile", 1, DefaultEvent, "await", j) IN
        IF RxAlive(h)
        THEN /\ TxSend(h, CompileAnnounce, -j)
             /\ ConsumeStart(h, s)
             /\ jobs' = Append(jobs, [job EXCEPT !.proc = Len(procs) + 1])
        ELSE /\ jobs' = Append(jobs, [job EXCEPT !.pc = "done", !.result = "send"])
             /\ UNCHANGED <<msgs, chan, procs>>
    /\ UNCHANGED <<hub, endpoint, server, handle, backlog, accepted, listeners, lockQ,
                   recv, cond, startedAtAttach, registered, numClients, stateLock, watching, logVars, projVars>>

\* The outcome arrives (a missing one counts as failure).  On failure the
\* error notification is sent and the update returns Error::Build, or the
\* error of the send when that fails; on success the update goes on to
\* write the database.
CompileResume(j) ==
    /\ jobs[j].kind = "compile"
    /\ jobs[j].pc = "await"
    /\ RecvReady(jobs[j].proc)
    /\ LET p == jobs[j].proc
           h == procs[p].hub
           v == RecvValue(p) IN
        /\ procs' = [procs EXCEPT ![p] = Dropped(Received(procs[p], v))]
        /\ IF Proceed(v = "true")
           THEN /\ jobs' = [jobs EXCEPT ![j].pc = "write"]
                /\ UNCHANGED <<msgs, chan>>
           ELSE IF RxAlive(h)
           THEN /\ TxSend(h, CompileFailed, -j)
                /\ jobs' = [jobs EXCEPT ![j].pc = "done", ![j].result = "build"]
           ELSE /\ jobs' = [jobs EXCEPT ![j].pc = "done", ![j].result = "send"]
                /\ UNCHANGED <<msgs, chan>>
    /\ UNCHANGED <<hub, endpoint, server, handle, backlog, accepted, listeners, lockQ,
                   recv, cond, startedAtAttach, registered, numClients, stateLock, watching, logVars, projVars>>

\* tokio::fs::write(root.join(".compile"), &json).await: the file is
\* overwritten, or the write fails and the update returns its error.
CompileWrite(j, ok) ==
    /\ jobs[j].kind = "compile"
    /\ jobs[j].pc = "write"
    /\ jobs' = IF ok THEN [jobs EXCEPT ![j].pc = "notify", ![j].wrote = TRUE]
                     ELSE [jobs EXCEPT ![j].pc = "done", ![j].result = "io"]
    /\ UNCHANGED <<hubVars, procs, registered, numClients, stateLock, watching, logVars, projVars>>

\* The 'Compiled' notification and log, then Ok(()).
CompileNotify(j) ==
    /\ jobs[j].kind = "compile"
    /\ jobs[j].pc = "notify"
    /\ IF RxAlive(procs[jobs[j].proc].hub)
       THEN /\ TxSend(procs[jobs[j].proc].hub, CompileDone, -j)
            /\ jobs' = [jobs EXCEPT ![j].pc = "done", ![j].result = "ok"]
       ELSE /\ jobs' = [jobs EXCEPT ![j].pc = "done", ![j].result = "send"]
            /\ UNCHANGED <<msgs, chan>>
    /\ UNCHANGED <<hub, endpoint, server, handle, backlog, accepted, listeners, lockQ,
                   recv, cond, startedAtAttach, procs, registered, numClients, stateLock,
                   watching, logVars, projVars>>

\* ------------------------------------------------------------------ generate (daemon/src/project/xcodegen.rs)
\* The Messages generate emits before it starts xcodegen and after the
\* process succeeded.
GenerateAnnounce == <<"notify_info Generating", "log_info separator",
                      "log_info Generating", "log_info separator">>
GenerateDone == <<"notify_info Generated", "log_info Generated">>

\* What loading the generated project gives: no *.xcodeproj is found, the
\* one found cannot be read, or an XCodeProject with its targets' platforms.
XCodeProjects == [Targets -> Platforms \cup {"none"}]
NoXCodeProject == [t \in Targets |-> "none"]
Loads == {[res |-> r, proj |-> NoXCodeProject] : r \in {"nopaths", "unreadable"}}
             \cup {[res |-> "ok", proj |-> x] : x \in XCodeProjects}

\* A generate that rebuilds the targets from the project, as new does.
ReplaceTargets(ts, proj) ==
    [t \in Targets |-> [platform |-> proj[t], watching |-> FALSE]]

\* `for (key, platform) in self.xcodeproj.targets_platform()`: a target
\* the project already has gets the platform, a new one is inserted with
\* watching: false; the other targets stay.
UpdateTargets(ts, proj) ==
    [t \in Targets |->
        IF proj[t] = "none" THEN ts[t]
        ELSE IF ts[t].platform # "none" THEN [ts[t] EXCEPT !.platform = proj[t]]
        ELSE [platform |-> proj[t], watching |-> FALSE]]

\* generate up to the await on the outcome: the generation is announced (a
\* send that fails returns its error) and the xcodegen process is handed
\* to consume.
GenerateStart(s) ==
    /\ Len(jobs) < MaxJobs
    /\ hub[Broadcaster] # "none"
    /\ RxAlive(Broadcaster) => Len(procs) < MaxProcs
    /\ LET h == Broadcaster
           j == Len(jobs) + 1
           job == NewJob("generate", 1, DefaultEvent, "await", j) IN
        IF RxAlive(h)
        THEN /\ TxSend(h, GenerateAnnounce, -j)
             /\ ConsumeStart(h, s)
             /\ jobs' = Append(jobs, [job EXCEPT !.proc = Len(procs) + 1])
        ELSE /\ jobs' = Append(jobs, [job EXCEPT !.pc = "done", !.result = "send"])
             /\ UNCHANGED <<msgs, chan, procs>>
    /\ UNCHANGED <<hub, endpoint, server, handle, backlog, accepted, listeners, lockQ,
                   recv, cond, startedAtAttach, registered, numClients, stateLock, watching,
                   logVars, projVars>>

\* The outcome arrives (a missing one counts as failure).  On failure
\* generate returns Error::Generate.  On success 'Generated' is sent, the
\* project is loaded from the first *.xcodeproj (indexing an empty list
\* panics, an unreadable project returns its error) and the targets are
\* updated from it.
GenerateResume(j, load) ==
    /\ jobs[j].kind = "generate"
    /\ jobs[j].pc = "await"
    /\ RecvReady(jobs[j].proc)
    /\ LET p == jobs[j].proc
           h == procs[p].hub
           v == RecvValue(p) IN
        /\ procs' = [procs EXCEPT ![p] = Dropped(Received(procs[p], v))]
        /\ IF v # "true"
           THEN /\ jobs' = [jobs EXCEPT ![j].pc = "done", ![j].result = "generate"]
                /\ UNCHANGED <<msgs, chan, projVars>>
           ELSE IF ~RxAlive(h)
           THEN /\ jobs' = [jobs EXCEPT ![j].pc = "done", ![j].result = "send"]
                /\ UNCHANGED <<msgs, chan, projVars>>
           ELSE /\ TxSend(h, GenerateDone, -j)
                /\ IF load.res = "ok"
                   THEN /\ xcodeproj' = load.proj
                        /\ targets' = UpdateTargets(targets, load.proj)
                        /\ jobs' = [jobs EXCEPT ![j].pc = "done", ![j].result = "ok"]
                   ELSE /\ jobs' = [jobs EXCEPT ![j].pc = "done",
                                                ![j].result = IF load.res = "nopaths"
                                                              THEN "panic" ELSE "io"]
                        /\ UNCHANGED projVars
    /\ UNCHANGED <<hub, endpoint, server, handle, backlog, accepted, listeners, lockQ,
                   recv, cond, startedAtAttach, registered, numClients, stateLock, watching,
                   logVars>>

\* ------------------------------------------------------------------ CompileCommands::from_logs (src/compile.rs)
\* The lines of a build log, up to what the parser tells apart: a target
\* header that matches the swift-compile pattern, another header, a line
\* that matches the pattern without the marker, two compiler command lines,
\* and a line that is neither.
LogLines == {"=== CompileSwiftSources", "=== Ld", "CompileSwiftSources",
             "swiftc a.swift", "swiftc b.swift", "warning"}
RECURSIVE LogsOfLen(_)
LogsOfLen(n) == IF n = 0 THEN {<<>>}
                ELSE {Append(l, x) : l \in LogsOfLen(n - 1), x \in LogLines}
Logs == UNION {LogsOfLen(n) : n \in 0..MaxLog}

\* A parser that takes every line for a block separator.
StartsWithAny(line) == TRUE

\* line.starts_with("===")
StartsWithMarker(line) == line \in {"=== CompileSwiftSources", "=== Ld"}

\* matches_compile_swift_sources(line): the fixed textual pattern of a
\* swift module compile block.
MatchesCompileSwiftSources(line) ==
    line \in {"=== CompileSwiftSources", "CompileSwiftSources"}

None == [none |-> TRUE]

\* An extraction that reads the header line instead of the line after it.
SwiftModuleAtHeader(ls, cursor) ==
    IF cursor >= 1 /\ ls[cursor] \in {"swiftc a.swift", "swiftc b.swift"}
    THEN [command |-> ls[cursor]] ELSE None

\* CompileCommand::swift_module(&lines, cursor): the block's command is
\* read from the line after the header (lines.get(cursor), 0-based, the
\* cursor being already past the header); None when that line is missing
\* or is not a command line.
SwiftModule(ls, cursor) ==
    IF cursor + 1 <= Len(ls) /\ ls[cursor + 1] \in {"swiftc a.swift", "swiftc b.swift"}
    THEN [command |-> ls[cursor + 1]] ELSE None

\* The `for line in lines.iter()` loop of from_logs, from the line after
\* `cursor` on, with the commands pushed so far.
RECURSIVE FromLogsLoop(_, _, _)
FromLogsLoop(ls, cursor, commands) ==
    IF cursor = Len(ls) THEN commands
    ELSE LET line == ls[cursor + 1]
             next == cursor + 1 IN
         IF ~StartsWithMarker(line) THEN FromLogsLoop(ls, next, commands)
         ELSE IF MatchesCompileSwiftSources(line) /\ SwiftModule(ls, next) # None
         THEN FromLogsLoop(ls, next, Append(commands, SwiftModule(ls, next)))
         ELSE FromLogsLoop(ls, next, commands)
FromLogs(ls) == FromLogsLoop(ls, 0, <<>>)

\* A call of from_logs on the log.
Parse ==
    /\ Len(parsed) < MaxParses
    /\ parsed' = Append(parsed, FromLogs(lines))
    /\ UNCHANGED <<hubVars, procs, daemonVars, lines, projVars>>

\* ------------------------------------------------------------------ specifications
\* Steps of the hub's own tasks.
ServerStep(h) == SrvAccept(h) \/ SrvPush(h) \/ SrvAbort(h)
RelayStep(h) == RelayRecv(h) \/ RelayAbort(h)
WriterStep(m) == WriterStart(m) \/ WriterWrite(m) \/ WriterFinish(m)
ConsumeStep(p) == ConsumeItem(p) \/ ConsumeEnd(p) \/ ConsumeCancel(p) \/ ConsumeSendFalse(p)
TaskStep ==
    \/ \E h \in Hubs : ServerStep(h) \/ RelayStep(h)
    \/ \E m \in MsgIds : WriterStep(m)
    \/ \E p \in ProcIds : ConsumeStep(p)

ClientStep ==
    \/ \E c \in Clients : ClientConnect(c)
    \/ \E c \in Clients : ClientStall(c)
    \/ \E c \in Clients : ClientDie(c)

\* Fan-out: one hub, its clients and the Messages its callers hand it.
Next ==
    \/ \E h \in Hubs : ServerStep(h) \/ RelayStep(h)
    \/ \E m \in MsgIds : WriterStep(m)
    \/ \E h \in Hubs : Notify(h, "notify_info")
    \/ \E h \in Hubs : Close(h)
    \/ ClientStep
Spec == Init /\ [][Next]_vars

\* Consumption: one hub, the processes it consumes and its clients.
NextConsume ==
    \/ TaskStep
    \/ \E h \in Hubs, s \in Streams : Consume(h, s)
    \/ \E p \in ProcIds : StatusRecv(p)
    \/ \E p \in ProcIds : StatusDrop(p)
    \/ \E h \in Hubs : Close(h)
    \/ \E c \in Clients : ClientConnect(c)
SpecConsume == Init /\ [][NextConsume]_vars

\* Reopening: successive hubs of the same root.
NextReopen ==
    \/ \E h \in Hubs : ServerStep(h) \/ RelayStep(h)
    \/ \E m \in MsgIds : WriterStep(m)
    \/ \E h \in Hubs : Open(h)
    \/ \E h \in Hubs : Close(h)
    \/ \E h \in Hubs : Notify(h, "notify_info")
    \/ \E c \in Clients : ClientConnect(c)
SpecReopen == Init /\ [][NextReopen]_vars

\* The daemon: build requests and watch events on the root's hub.
NextDaemon ==
    \/ \E k \in {"once", "watch", "stop"}, sig \in Sigs : JobArrive(k, sig, DefaultEvent)
    \/ \E sig \in Sigs, e \in Events : JobArrive("event", sig, e)
    \/ \E j \in JobIds : HandleBuild(j)
    \/ \E j \in JobIds : WatchEvent(j)
    \/ \E j \in JobIds : TriggerResume(j)
    \/ DropWorkspace
    \/ \E p \in ProcIds : ConsumeStep(p)
    \/ \E h \in Hubs : RelayStep(h) \/ SrvAbort(h)
SpecDaemon == Init /\ [][NextDaemon]_vars

\* The daemon under the runtime's scheduling: a consume task that can take
\* a step and a trigger whose receiver has resolved are polled eventually.
SpecDaemonFair ==
    /\ SpecDaemon
    /\ WF_vars(\E p \in ProcIds : ConsumeStep(p))
    /\ WF_vars(\E j \in JobIds : TriggerResume(j))

\* Compile-database updates on the root's hub, and its close.
NextCompile ==
    \/ \E s \in Streams : CompileStart(s)
    \/ \E j \in JobIds : CompileResume(j)
    \/ \E j \in JobIds, ok \in BOOLEAN : CompileWrite(j, ok)
    \/ \E j \in JobIds : CompileNotify(j)
    \/ \E p \in ProcIds : ConsumeStep(p)
    \/ \E h \in Hubs : Close(h)
    \/ \E h \in Hubs : RelayStep(h) \/ SrvAbort(h)
SpecCompile == Init /\ [][NextCompile]_vars

\* Generations of a project that has any targets, on the root's hub, and
\* the hub's close.
InitGenerate ==
    /\ InitHub
    /\ registered = {"projects", "broadcasters", "watcher"}
    /\ numClients = 1
    /\ stateLock = 0
    /\ watching = [s \in Sigs |-> 0]
    /\ jobs = <<>>
    /\ lines = <<>>
    /\ parsed = <<>>
    /\ xcodeproj \in XCodeProjects
    /\ targets \in [Targets -> [platform : Platforms \cup {"none"}, watching : BOOLEAN]]
    /\ \A t \in Targets :
          /\ xcodeproj[t] # "none" => targets[t].platform = xcodeproj[t]
          /\ targets[t].platform = "none" => ~targets[t].watching
NextGenerate ==
    \/ \E s \in Streams : GenerateStart(s)
    \/ \E j \in JobIds, load \in Loads : GenerateResume(j, load)
    \/ \E p \in ProcIds : ConsumeStep(p)
    \/ \E h \in Hubs : Close(h)
    \/ \E h \in Hubs : RelayAbort(h)
SpecGenerate == InitGenerate /\ [][NextGenerate]_vars

\* The parser on every log of up to MaxLog lines.
InitParse ==
    /\ InitHub
    /\ registered = {"projects", "broadcasters", "watcher"}
    /\ numClients = 1
    /\ stateLock = 0
    /\ watching = [s \in Sigs |-> 0]
    /\ jobs = <<>>
    /\ lines \in Logs
    /\ parsed = <<>>
    /\ InitProject
NextParse == Parse
SpecParse == InitParse /\ [][NextParse]_vars

\* Build requests on a daemon state that may lack the root's entry in any
\* of its maps.
InitMissing ==
    /\ InitHub
    /\ registered \in SUBSET StateMaps
    /\ numClients = IF "projects" \in registered THEN 1 ELSE 0
    /\ stateLock = 0
    /\ watching \in [Sigs -> IF "watcher" \in registered THEN {0, 1} ELSE {0}]
    /\ jobs = <<>>
    /\ lines = <<>>
    /\ parsed = <<>>
    /\ InitProject
NextMissing ==
    \/ \E k \in {"once", "watch", "stop"}, sig \in Sigs : JobArrive(k, sig, DefaultEvent)
    \/ \E j \in JobIds : HandleBuild(j)
    \/ \E j \in JobIds : TriggerResume(j)
    \/ \E p \in ProcIds : ConsumeStep(p)
    \/ \E h \in Hubs : RelayRecv(h)
SpecMissing == InitMissing /\ [][NextMissing]_vars

\* Build requests of every kind and watch events, on a root whose
\* signatures may or may not be registered already.
InitDispatch ==
    /\ InitHub
    /\ registered = {"projects", "broadcasters", "watcher"}
    /\ numClients = 1
    /\ stateLock = 0
    /\ watching \in [Sigs -> {0, 1}]
    /\ jobs = <<>>
    /\ lines = <<>>
    /\ parsed = <<>>
    /\ InitProject
NextDispatch ==
    \/ \E k \in {"once", "watch", "stop"}, sig \in Sigs : JobArrive(k, sig, DefaultEvent)
    \/ \E sig \in Sigs, e \in Events : JobArrive("event", sig, e)
    \/ \E j \in JobIds : HandleBuild(j)
    \/ \E j \in JobIds : WatchEvent(j)
    \/ \E j \in JobIds : TriggerResume(j)
    \/ \E p \in ProcIds : ConsumeStep(p)
SpecDispatch == InitDispatch /\ [][NextDispatch]_vars

\* The clients of the root: registrations, drops and watch requests.
NextClients ==
    \/ RegisterClient
    \/ DropWorkspace
    \/ \E k \in {"watch", "stop"}, sig \in Sigs : JobArrive(k, sig, DefaultEvent)
    \/ \E j \in JobIds : HandleBuild(j)
    \/ \E h \in Hubs : RelayStep(h) \/ SrvAbort(h)
SpecClients == Init /\ [][NextClients]_vars

\* The watcher's intake: raw events on one path, with every signature
\* registered for watching.
InitWatching ==
    /\ InitHub
    /\ registered = {"projects", "broadcasters", "watcher"}
    /\ numClients = 1
    /\ stateLock = 0
    /\ watching = [s \in Sigs |-> 1]
    /\ jobs = <<>>
    /\ lines = <<>>
    /\ parsed = <<>>
    /\ InitProject
NextDebounce ==
    \/ \E sig \in Sigs, e \in Events : RawEvent(sig, e)
    \/ \E j \in JobIds : WindowClose(j)
    \/ \E j \in JobIds : WatchEvent(j)
    \/ \E j \in JobIds : TriggerResume(j)
    \/ \E p \in ProcIds : ConsumeStep(p)
SpecDebounce == InitWatching /\ [][NextDebounce]_vars

\* ------------------------------------------------------------------ properties of the fan-out (Spec)
\* C1: the Messages enqueued on a hub's relay channel while at least one
\* client is attached are written to every client in the order in which they
\* were enqueued.
C1_WrittenInEnqueueOrder ==
    \A c \in Clients : \A i, j \in 1..Len(recv[c]) :
        (i < j /\ msgs[recv[c][i]].attached # {} /\ msgs[recv[c][j]].attached # {})
            => recv[c][i] < recv[c][j]

\* C2, as stated: a client is written only Messages that were enqueued after
\* the accept loop added it to the client set.
C2_NoMessageFromBeforeAttach ==
    \A c \in Clients : \A i \in 1..Len(recv[c]) : c \in msgs[recv[c][i]].attached

\* C2, amended: a client is never written a Message whose write task had
\* taken the client-set lock before the accept loop added the client; a
\* Message that was enqueued before but whose write task took the lock after
\* may be written to it.
C2_NoReplayOfStartedFanOut ==
    \A c \in Clients : startedAtAttach[c] \cap Range(recv[c]) = {}

\* A client that was added while some fan-out had already started, and that
\* was since written a Message enqueued before it was added.
C2_LateClientWritten ==
    \E c \in Clients :
        /\ startedAtAttach[c] # {}
        /\ \E i \in 1..Len(recv[c]) : c \notin msgs[recv[c][i]].attached

\* The Messages of hub h that are owed to its clients: enqueued while the
\* hub was open and at least one client was attached.
Owed(h) == {m \in MsgIds : msgs[m].hub = h /\ msgs[m].open /\ msgs[m].attached # {}}

\* C3: once the relay loop of a hub has ended and none of its write tasks is
\* left to run, every Message enqueued while the hub was open and a client
\* was attached has been written to every client attached at its enqueue.
C3_NoSilentDrop ==
    \A h \in Hubs :
        (/\ handle[h] = "done"
         /\ \A m \in MsgIds : msgs[m].hub = h => msgs[m].w \notin {"spawned", "waiting"})
        => \A m \in Owed(h) : \A c \in msgs[m].attached : m \in Range(recv[c])

\* The write task holding the client-set lock of hub h is pending on a
\* client that does not read.
Blocked(h) ==
    /\ LockHolder(h) >= 1
    /\ msgs[LockHolder(h)].idx <= Len(listeners[h])
    /\ cond[listeners[h][msgs[LockHolder(h)].idx]] = "stalled"

\* C8: while a write to a stalled client is pending, every other healthy
\* client has been written the same Message, no later write task waits, and
\* the accept loop is not kept from adding a client.
C8_StalledClientIsolated ==
    \A h \in Hubs :
        Blocked(h) =>
            /\ server[h] # "lock"
            /\ Len(lockQ[h]) = 1
            /\ \A i \in 1..Len(listeners[h]) :
                  cond[listeners[h][i]] = "ok" => LockHolder(h) \in Range(recv[listeners[h][i]])

\* ------------------------------------------------------------------ properties of consume (SpecConsume)
\* C4: over the lifetime of a consume task at most one value is sent on the
\* status channel, and a task that ended after its process exited or was
\* cancelled has sent exactly one.
C4_ExactlyOneStatus ==
    \A p \in ProcIds :
        /\ Len(procs[p].sent) <= 1
        /\ (procs[p].pc = "done" /\ (procs[p].exited # "no" \/ procs[p].aborted))
              => Len(procs[p].sent) = 1

\* C5: a consume task that was still streaming when the hub's signal fired
\* has, once it ended, notified the aborter and sent false; without a
\* cancellation the value sent is the process's own success status.
C5_CancelAbortsAndFails ==
    \A p \in ProcIds :
        /\ (procs[p].atClose = "streaming" /\ procs[p].pc = "done")
              => /\ procs[p].aborted
                 /\ procs[p].sent # <<>>
                 /\ procs[p].sent[1] = FALSE
        /\ (hub[procs[p].hub] = "open" /\ procs[p].sent # <<>>)
              => procs[p].sent[1] = (procs[p].exited = "exit0")

\* C6: once a closed hub's tasks have no step left, its accept loop and its
\* relay loop have ended and every consume task that was streaming when the
\* signal fired has aborted its process.
C6_CloseStopsEveryTask ==
    \A h \in Hubs :
        (hub[h] = "closed" /\ ~ENABLED TaskStep) =>
            /\ server[h] = "done"
            /\ handle[h] = "done"
            /\ \A p \in ProcIds :
                  (procs[p].hub = h /\ procs[p].atClose = "streaming") => procs[p].aborted

\* ------------------------------------------------------------------ properties of reopening (SpecReopen)
\* C7: while a hub opened after the close of an earlier one is open, the
\* endpoint is present and bound by it.
C7_ReopenedEndpointStays ==
    \A h \in Hubs : (h > 1 /\ hub[h] = "open") => endpoint = h

\* ------------------------------------------------------------------ properties of the build requests (SpecDaemon)
\* The triggers in flight: started and not yet returned.
InFlight == {j \in JobIds : jobs[j].pc = "await"}

\* C9: at most one trigger is in flight; it runs under the state lock, and
\* no other request or event has got past the lock.
C9_TriggersNeverOverlap ==
    /\ Cardinality(InFlight) <= 1
    /\ \A j \in InFlight : stateLock = j
    /\ \A p \in ProcIds :
          (procs[p].rcvr = "alive") => \E j \in InFlight : jobs[j].proc = p

\* A trigger is in flight while a later request or event waits for the lock.
C9_SecondWaits ==
    \E j, k \in JobIds : jobs[j].pc = "await" /\ j < k /\ jobs[k].pc = "lock"

\* The Messages of one kind that job j has emitted.
Emitted(j, kind) == Cardinality({m \in MsgIds : msgs[m].src = -j /\ msgs[m].kind = kind})

\* The watch events whose trigger ran and returned.
Triggered == {j \in JobIds : jobs[j].kind = "event" /\ jobs[j].pc = "done" /\ jobs[j].proc # 0}

\* C10: a trigger of a watch registration that has returned started the
\* build once; on failure it emitted one error notification, one error log
\* and no info notification, on success one info notification and no error;
\* the registration was still present when it returned.
C10_WatchTriggerReportsOnce ==
    \A j \in Triggered :
        /\ jobs[j].builds = 1
        /\ jobs[j].kept
        /\ IF procs[jobs[j].proc].outcome = "true"
           THEN /\ Emitted(j, "notify_info") = 1
                /\ Emitted(j, "notify_error") = 0
                /\ Emitted(j, "log_error") = 0
           ELSE /\ Emitted(j, "notify_error") = 1
                /\ Emitted(j, "log_error") = 1
                /\ Emitted(j, "notify_info") = 0

\* A watch trigger whose build failed has returned and reported.
C10_FailedWatchTrigger ==
    \E j \in Triggered :
        /\ procs[jobs[j].proc].outcome \in {"false", "none"}
        /\ Emitted(j, "notify_error") = 1

\* C11: after any sequence of watch and stop requests the watcher holds at
\* most one registration for each signature.
C11_OneRegistrationPerSignature ==
    \A s \in Sigs : watching[s] <= 1

\* Two watch requests with the same signature have both been added, and the
\* signature is registered.
C11_RegisteredTwice ==
    \E j, k \in JobIds :
        /\ j < k
        /\ jobs[j].kind = "watch" /\ jobs[k].kind = "watch"
        /\ jobs[j].sig = jobs[k].sig
        /\ jobs[j].result = "ok" /\ jobs[k].result = "ok"
        /\ Watched(jobs[j].sig)

\* C12: for every event a build registration is run on, should_trigger is
\* true exactly when the event is a content update, a rename, a create or a
\* removal, or its path does not exist and it was not seen before; and
\* should_discard is false.
C12_TriggerPolicy ==
    \A j \in JobIds :
        jobs[j].kind = "event" =>
            /\ jobs[j].trig = (\/ jobs[j].ev.kind \in {"content", "rename", "create", "remove"}
                               \/ (~jobs[j].ev.exists /\ ~jobs[j].ev.seen))
            /\ ~jobs[j].disc

\* An event of no listed kind, on a missing path not seen before, has
\* triggered a build; one on a missing path seen before has not.
C12_MissingPathTriggered ==
    \E j \in JobIds :
        /\ jobs[j].kind = "event"
        /\ jobs[j].ev.kind = "other" /\ ~jobs[j].ev.exists /\ ~jobs[j].ev.seen
        /\ jobs[j].proc # 0

\* ------------------------------------------------------------------ properties of the debounce (SpecDebounce)
\* The events of burst b that have triggered a build.
TriggeredOf(b) ==
    {j \in JobIds : jobs[j].kind = "event" /\ jobs[j].burst = b /\ jobs[j].builds > 0}

\* C13: the raw events that fall within one debounce window trigger the
\* registration at most once.
C13_BurstTriggersOnce ==
    \A b \in JobIds :
        /\ Cardinality(TriggeredOf(b)) <= 1
        /\ \A j \in TriggeredOf(b) : jobs[j].builds = 1

\* A burst of at least two content updates in one window has triggered the
\* registration, once.
C13_BurstCoalesced ==
    \E j \in JobIds :
        /\ jobs[j].kind = "event"
        /\ jobs[j].raw >= 2
        /\ jobs[j].ev.kind = "content"
        /\ jobs[j].pc = "done"
        /\ jobs[j].builds = 1

Updates == {j \in JobIds : jobs[j].kind = "compile" /\ jobs[j].proc # 0}
Failed == {j \in Updates : jobs[j].pc = "done" /\ procs[jobs[j].proc].outcome # "true"}

RecognizedBlocks ==
    {i \in 1..Len(lines) : /\ lines[i] = "=== CompileSwiftSources"
                           /\ i < Len(lines)
                           /\ lines[i + 1] \in {"swiftc a.swift", "swiftc b.swift"}}

NthBlock(k) == CHOOSE i \in RecognizedBlocks :
                  Cardinality({r \in RecognizedBlocks : r < i}) = k - 1

\* C17: the output has one entry per recognized compile block, in log
\* order, duplicates kept: the k-th entry is the command of the k-th
\* recognized block, and nothing else contributes an entry.
C17_OneEntryPerBlockInOrder ==
    \A n \in 1..Len(parsed) :
        /\ Len(parsed[n]) = Cardinality(RecognizedBlocks)
        /\ \A k \in 1..Len(parsed[n]) :
              parsed[n][k] = [command |-> lines[NthBlock(k) + 1]]

\* A log with two equal recognized blocks has been parsed into two equal
\* entries.
C17_DuplicateBlocksKept ==
    /\ Len(parsed) >= 1
    /\ Cardinality(RecognizedBlocks) = 2
    /\ Len(parsed[1]) = 2
    /\ parsed[1][1] = parsed[1][2]

\* ------------------------------------------------------------------ properties of failed requests (SpecMissing)
\* The key that request j needs is missing from the daemon state.
MissingKey(j) ==
    \/ "broadcasters" \notin registered
    \/ jobs[j].kind = "once" /\ "projects" \notin registered
    \/ jobs[j].kind \in {"watch", "stop"} /\ "watcher" \notin registered

\* C18: the step in which handle returns an error because a project,
\* broadcaster or watcher key is missing broadcasts no Message and adds or
\* removes no registration.
C18_MissingKeyNoEffect ==
    [][\A j \in JobIds :
          (/\ jobs[j].kind \in {"once", "watch", "stop"}
           /\ jobs[j].pc = "lock"
           /\ MissingKey(j)
           /\ jobs'[j].pc = "done"
           /\ jobs'[j].result = "err")
          => (msgs' = msgs /\ watching' = watching)]_vars

\* ------------------------------------------------------------------ properties of the dispatch (SpecDispatch)
\* Job j takes the step that starts with the state lock granted.
Handles(j) == jobs[j].pc = "lock" /\ jobs'[j].pc # "lock"

\* C19: a one-shot request runs the trigger once and leaves the
\* registrations as they are; a watch request that succeeds adds the
\* registration and starts no build; a stop request leaves the signature
\* unregistered and starts no build; an event for an unregistered signature
\* triggers nothing.
C19_DispatchByKind ==
    /\ [](\A j \in JobIds :
            /\ jobs[j].kind = "once" /\ jobs[j].pc \in {"await", "done"} => jobs[j].builds = 1
            /\ jobs[j].kind \in {"watch", "stop"} => jobs[j].builds = 0 /\ jobs[j].proc = 0)
    /\ [][\A j \in JobIds :
            /\ jobs[j].kind = "once" /\ jobs'[j] # jobs[j] => watching' = watching
            /\ jobs[j].kind = "watch" /\ Handles(j) /\ jobs'[j].result = "ok" =>
                  /\ watching'[jobs[j].sig] = 1
                  /\ \A s \in Sigs \ {jobs[j].sig} : watching'[s] = watching[s]
                  /\ procs' = procs
            /\ jobs[j].kind = "stop" /\ Handles(j) =>
                  /\ watching'[jobs[j].sig] = 0
                  /\ \A s \in Sigs \ {jobs[j].sig} : watching'[s] = watching[s]
                  /\ procs' = procs
            /\ jobs[j].kind = "event" /\ Handles(j) /\ watching[jobs[j].sig] = 0 =>
                  /\ jobs'[j].builds = 0
                  /\ procs' = procs
                  /\ msgs' = msgs]_vars

\* A stop request has removed a registration, and an event that would
\* have triggered it has been handled without a build.
C19_StoppedThenEvent ==
    \E j, k \in JobIds :
        /\ j < k
        /\ jobs[j].kind = "stop" /\ jobs[j].result = "ok"
        /\ jobs[k].kind = "event" /\ jobs[k].sig = jobs[j].sig /\ jobs[k].trig
        /\ jobs[k].pc = "done" /\ jobs[k].builds = 0

\* ------------------------------------------------------------------ properties of the relay loop on close (Spec)
\* The Messages of hub h that were enqueued before its cancellation signal
\* fired and that the relay loop has not received.
BufferedAtClose(h) == {m \in Range(chan[h]) : msgs[m].open}

\* C20: when the relay loop of a closed hub has exited, no Message that was
\* buffered when the signal fired with a client attached is left in the
\* channel: each was received and handed to a write task.
C20_DrainedBeforeExit ==
    \A h \in Hubs :
        handle[h] = "done" =>
            \A m \in BufferedAtClose(h) : msgs[m].attached = {} /\ listeners[h] = <<>>

\* ------------------------------------------------------------------ properties of one Message's fan-out (Spec)
\* The Messages of hub h whose write task is in the middle of its
\* iteration: it has written to a client and has not ended.
MidFanOut(h) == {m \in MsgIds : msgs[m].hub = h /\ msgs[m].w = "waiting" /\ msgs[m].idx > 1}

\* The position of Message m in what client c has been written.
PosIn(c, m) == CHOOSE i \in 1..Len(recv[c]) : recv[c][i] = m

\* C21: at most one Message of a hub is in the middle of its fan-out, and
\* its write task holds the client-set lock; two clients that were both
\* written the same two Messages were written them in the same order; and
\* no client is added to the client set while a Message is in the middle of
\* its fan-out.
C21_FanOutAtomic ==
    /\ [](\A h \in Hubs : \A m \in MidFanOut(h) : LockHolder(h) = m)
    /\ [](\A c, d \in Clients : \A m, n \in Range(recv[c]) \cap Range(recv[d]) :
             PosIn(c, m) < PosIn(c, n) <=> PosIn(d, m) < PosIn(d, n))
    /\ [][\A h \in Hubs : listeners'[h] # listeners[h] => MidFanOut(h) = {}]_vars

\* Two clients have both been written the same two Messages.
C21_TwoClientsTwoMessages ==
    \E c, d \in Clients : \E m, n \in MsgIds :
        /\ c # d /\ m # n
        /\ {m, n} \subseteq Range(recv[c]) \cap Range(recv[d])

\* ------------------------------------------------------------------ properties of a trigger's wait (SpecDaemonFair)
\* The triggers that have returned after their process's stream ended
\* without an exit status.
NoStatus ==
    {j \in JobIds : /\ jobs[j].kind \in {"once", "event"}
                    /\ jobs[j].pc = "done"
                    /\ jobs[j].proc # 0
                    /\ procs[jobs[j].proc].exited = "no"
                    /\ ~procs[jobs[j].proc].aborted}

\* C22: a trigger that waits for the outcome of its process returns and
\* releases the state lock; when the stream ended without an exit status,
\* the consume task has ended, the trigger took the missing outcome for a
\* failure and emitted the error notification and the error log.
C22_TriggerReturns ==
    /\ \A j \in 1..MaxJobs :
          (j \in JobIds /\ jobs[j].pc = "await")
              ~> (j \in JobIds /\ jobs[j].pc = "done" /\ stateLock # j)
    /\ [](\A j \in NoStatus :
             /\ procs[jobs[j].proc].pc = "done"
             /\ procs[jobs[j].proc].outcome = "none"
             /\ procs[jobs[j].proc].sent = <<>>
             /\ Emitted(j, "notify_error") = 1
             /\ Emitted(j, "log_error") = 1
             /\ Emitted(j, "notify_info") = IF jobs[j].kind = "once" THEN 1 ELSE 0
             /\ stateLock # j)

\* A one-shot trigger has returned after a stream that ended with an error
\* item and no exit status.
C22_ReturnedWithoutStatus ==
    \E j \in NoStatus : jobs[j].kind = "once" /\ jobs[j].result = "ok"

\* ------------------------------------------------------------------ properties of the two flows of consume (SpecConsume)
\* The consume task of process p takes the next item of its stream.
Takes(p) == procs'[p].stream # procs[p].stream

\* C23: an exit item is never relayed as a Message; an output item taken
\* while the hub is open is appended to the relay channel, once and behind
\* the items taken before it; an output item taken after the hub's
\* cancellation signal fired is not enqueued.
C23_TwoDisjointFlows ==
    /\ [](\A m \in MsgIds : msgs[m].src > 0 => ~IsExit(msgs[m].kind))
    /\ [][\A p \in ProcIds :
            Takes(p) =>
              LET item == Head(procs[p].stream)
                  h == procs[p].hub IN
              IF IsExit(item)
              THEN msgs' = msgs /\ chan' = chan
              ELSE IF hub[h] = "open"
              THEN /\ msgs' = Append(msgs, NewMsg(h, item, p))
                   /\ chan' = [chan EXCEPT ![h] = Append(@, Len(msgs) + 1)]
              ELSE msgs' = msgs /\ chan' = chan]_vars

\* ------------------------------------------------------------------ properties of generate (SpecGenerate)
\* Generation j returns in this step.
Generated(j) == jobs[j].kind = "generate" /\ jobs[j].pc = "await" /\ jobs'[j].pc = "done"

\* The project has target t.
HasTarget(ts, t) == ts[t].platform # "none"

\* C24: a generate that returns Ok has removed no target, has left the
\* watching flag of every target the project had, has given the targets of
\* the loaded project their platform there, and has inserted the new ones
\* with watching = false; a generate whose process outcome is not success
\* returns the generate error, emits no 'Generated' message and leaves the
\* targets and the xcodeproj as they were.
C24_GenerateAddsOrUpdates ==
    [][\A j \in JobIds :
         Generated(j) =>
           /\ jobs'[j].result = "ok" =>
                \A t \in Targets :
                   /\ HasTarget(targets, t) =>
                         /\ HasTarget(targets', t)
                         /\ targets'[t].watching = targets[t].watching
                   /\ ~HasTarget(targets, t) /\ HasTarget(targets', t) =>
                         ~targets'[t].watching
                   /\ xcodeproj'[t] # "none" => targets'[t].platform = xcodeproj'[t]
                   /\ xcodeproj'[t] = "none" => targets'[t] = targets[t]
           /\ procs'[jobs[j].proc].outcome # "true" =>
                /\ jobs'[j].result = "generate"
                /\ msgs' = msgs
                /\ Emitted(j, "notify_info Generated") = 0
                /\ targets' = targets
                /\ xcodeproj' = xcodeproj]_vars

\* A generate has returned Ok on a project that keeps a watched target
\* which the loaded xcodeproj declares, and a target which it does not
\* declare.
C24_GeneratedKeepsTargets ==
    \E j \in JobIds :
        /\ jobs[j].kind = "generate" /\ jobs[j].result = "ok"
        /\ \E t \in Targets : targets[t].watching /\ xcodeproj[t] = "macos"
        /\ \E t \in Targets : HasTarget(targets, t) /\ xcodeproj[t] = "none"

=============================================================================
